---------------------------- MODULE Spec2Model ----------------------------
(***************************************************************************)
(* Procedural level generation of glass-half-full (src/game/level):        *)
(* platform graph templates, graph merge, the causality chain generator,   *)
(* chain validation, terrain application, and the grid layout engine.      *)
(*                                                                         *)
(* NodeId(i) is the natural number i; the node sequence of a graph is a    *)
(* TLA+ sequence, so NodeId(i) is stored at index i + 1.                   *)
(***************************************************************************)
EXTENDS Integers, Sequences, FiniteSets, TLC

VARIABLES
    pc,          \* stage of the generation pipeline
    difficulty,  \* GeneratorConfig.difficulty
    seed,        \* GeneratorConfig.seed (spawn_level's attempt_seed)
    kinds,       \* the template constructors selected for this level
    graphs,      \* the template graphs built so far (argument of merge_graphs)
    graph,       \* the PlatformGraph of the level
    chain,       \* Result<CausalityChain, String> of generate_chain
    pending,     \* keys of terrain_map that apply_chain_to_graph has not visited
    layouts,     \* HashMap<NodeId, PlatformLayout> of generate_layout
    placed_by,   \* history: for each placed node, the node whose edge placed it
    first,       \* the (graph, layouts) pair of an earlier run with the same input
    verdict,     \* the result of the last validate() call
    result,      \* what the last call of a core operation on an input graph did
    level,       \* spawn_level: season, game_level, completed_year and seed
    attempt,     \* spawn_level: the loop variable of the retry loop
    spawned,     \* spawn_level: the levels handed to spawn_level_from_graph
    edge_log,    \* history: one record per edge visited by generate_layout
    fire_step    \* add_fire_conversion_step: its locals while it runs

vars == <<pc, difficulty, seed, kinds, graphs, graph, chain, pending, layouts,
          placed_by, first, verdict, result, level, attempt, spawned, edge_log,
          fire_step>>

-----------------------------------------------------------------------------
(* Bounds of the model *)

\* seeds range over 0..MaxSeed
MaxSeed == 7

\* chains handed to CausalityChain::validate have at most MaxChainLen nodes
MaxChainLen == 2

\* input graphs have at most MaxNodes nodes and MaxEdges edges
MaxNodes == 3

MaxEdges == 2

\* game levels range over 0..MaxLevel
MaxLevel == 2

-----------------------------------------------------------------------------
(* Program constants *)

\* spawn_level merges at most three template graphs (Difficulty::Hard)
MaxMergedGraphs == 3

\* spawn_level: the number of generation attempts
max_retries == 10

MIN_HORIZONTAL_SPACING_TILES == 2
MAX_HORIZONTAL_SPACING_TILES == 4
MIN_HEIGHT_DELTA_TILES == -2
MAX_HEIGHT_DELTA_TILES == 2
MAX_JUMP_HEIGHT_TILES == 3
MAX_JUMP_DISTANCE_TILES == 6
TILE_SIZE == 32

Difficulties == {"Easy", "Medium", "Hard"}

TemplateKinds ==
    {"LinearNone", "Linear", "Branching", "CulDeSac", "Zigzag", "GroundAndFloating"}

-----------------------------------------------------------------------------
(* rand::rngs::StdRng.  The generator is a deterministic function of its    *)
(* seed; every stage seeds a fresh one with seed_from_u64.  Its stream of   *)
(* output words is modelled by a 16-bit linear congruential generator, and  *)
(* the sampling of ranges and booleans from a word as rand does it (the     *)
(* high part of the widening product; a threshold on the word).            *)

RngModulus == 65536

seed_from_u64(s) == ((s % RngModulus) * 31421 + 6927) % RngModulus

\* the generator after one draw
RngStep(rng) == (rng * 25173 + 13849) % RngModulus

\* rng.random_range(lo..=hi), drawn from the generator in state rng
random_range(rng, lo, hi) == lo + (rng * (hi - lo + 1)) \div RngModulus

\* rng.random_bool(p) with p = tenths / 10
random_bool(rng, tenths) == rng * 10 < tenths * RngModulus

-----------------------------------------------------------------------------
(* graph.rs: PlatformNode, PlatformGraph *)

Jump(direction) == [kind |-> "Jump", direction |-> direction]

\* ConnectionType::Fall and ConnectionType::MovingPlatform; the fields
\* platform_entity and required are read nowhere in level generation
Fall(direction) == [kind |-> "Fall", direction |-> direction]

MovingPlatform(direction) == [kind |-> "MovingPlatform", direction |-> direction]

\* ConnectionType::direction
DirectionOf(connection_type) == connection_type.direction

\* PlatformNode::with_type; PlatformNode::new is with_type(Floating).  width
\* and height are the fields apply_chain_to_graph writes; no constructor of
\* graph.rs sets them, and they stay 0 until it does
with_type(platform_type) ==
    [edges |-> <<>>, terrain_objects |-> <<>>, platform_type |-> platform_type,
     width |-> 0, height |-> 0]

\* PlatformGraph::new
NewGraph(start, goal) == [nodes |-> <<>>, start |-> start, goal |-> goal]

\* PlatformGraph::add_node (the new NodeId is the old node count)
add_node(g, node) == [g EXCEPT !.nodes = Append(@, node)]

\* PlatformGraph::get_node returns Some exactly for these ids
HasNode(g, id) == id >= 0 /\ id < Len(g.nodes)

get_node(g, id) == g.nodes[id + 1]

\* graph.get_node_mut(from).unwrap().add_edge(to, connection_type)
add_edge(g, from, to, connection_type) ==
    [g EXCEPT !.nodes[from + 1].edges =
        Append(@, [to |-> to, connection_type |-> connection_type])]

\* faulty variant of ReachLoop: a Fall edge is not followed
RECURSIVE ReachLoopNoFalls(_, _, _, _)
ReachLoopNoFalls(g, stack, visited, reachable) ==
    IF stack = <<>> THEN [reachable |-> reachable, panicked |-> FALSE]
    ELSE LET current == stack[Len(stack)]
             rest    == SubSeq(stack, 1, Len(stack) - 1)
         IN  IF ~ HasNode(g, current)
             THEN [reachable |-> reachable, panicked |-> TRUE]
             ELSE IF current \in visited
             THEN ReachLoopNoFalls(g, rest, visited, reachable)
             ELSE LET seen   == visited \cup {current}
                      edges  == get_node(g, current).edges
                      pushed == SelectSeq(edges, LAMBDA e :
                                   /\ e.to \notin seen
                                   /\ e.connection_type.kind # "Fall")
                  IN  IF \E k \in 1..Len(edges) : ~ HasNode(g, edges[k].to)
                      THEN [reachable |-> Append(reachable, current),
                            panicked |-> TRUE]
                      ELSE ReachLoopNoFalls(g,
                               rest \o [i \in 1..Len(pushed) |-> pushed[i].to],
                               seen, Append(reachable, current))

\* the loop of PlatformGraph::reachable_from: pop, skip visited, push targets.
\* visited is a Vec<bool> of nodes.len() entries, so visited[current.0] and
\* visited[edge.to.0] panic for an id that is out of range; the result holds
\* the Vec built so far and whether the loop panicked
RECURSIVE ReachLoop(_, _, _, _)
ReachLoop(g, stack, visited, reachable) ==
    IF stack = <<>> THEN [reachable |-> reachable, panicked |-> FALSE]
    ELSE LET current == stack[Len(stack)]
             rest    == SubSeq(stack, 1, Len(stack) - 1)
         IN  IF ~ HasNode(g, current)
             THEN [reachable |-> reachable, panicked |-> TRUE]
             ELSE IF current \in visited
             THEN ReachLoop(g, rest, visited, reachable)
             ELSE LET seen   == visited \cup {current}
                      edges  == get_node(g, current).edges
                      pushed == SelectSeq(edges, LAMBDA e : e.to \notin seen)
                  IN  IF \E k \in 1..Len(edges) : ~ HasNode(g, edges[k].to)
                      THEN [reachable |-> Append(reachable, current),
                            panicked |-> TRUE]
                      ELSE ReachLoop(g,
                               rest \o [i \in 1..Len(pushed) |-> pushed[i].to],
                               seen, Append(reachable, current))

\* PlatformGraph::reachable_from: the Vec of visited nodes, in visit order
reachable_from(g, node) == ReachLoop(g, <<node>>, {}, <<>>).reachable

\* PlatformGraph::reachable_from panics instead of returning
ReachPanics(g, node) == ReachLoop(g, <<node>>, {}, <<>>).panicked

SeqToSet(s) == {s[i] : i \in 1..Len(s)}

\* PlatformGraph::validate is Ok
GraphValidateOk(g) == g.goal \in SeqToSet(reachable_from(g, g.start))

\* faulty variant of graph_validate: the traversal runs from goal to start
graph_validate_from_goal(g) ==
    IF ReachPanics(g, g.goal) THEN "Panic"
    ELSE IF g.start \in SeqToSet(reachable_from(g, g.goal)) THEN "Ok" ELSE "Err"

\* PlatformGraph::validate: Ok, Err, or the panic of reachable_from
graph_validate(g) ==
    IF ReachPanics(g, g.start) THEN "Panic"
    ELSE IF GraphValidateOk(g) THEN "Ok" ELSE "Err"

-----------------------------------------------------------------------------
(* templates.rs *)

\* Option<u64>: None is <<>>, Some(s) is <<s>>
None == <<>>
Some(s) == <<s>>

\* a run of graph.get_node_mut(from).unwrap().add_edge(to, Jump{direction}),
\* one <<from, to, direction>> per call, in program order
RECURSIVE AddJumps(_, _)
AddJumps(g, calls) ==
    IF calls = <<>> THEN g
    ELSE AddJumps(add_edge(g, calls[1][1], calls[1][2], Jump(calls[1][3])),
                  Tail(calls))

\* platforms.into_iter().map(|p| graph.add_node(p))
RECURSIVE AddNodes(_, _)
AddNodes(g, platform_types) ==
    IF platform_types = <<>> THEN g
    ELSE AddNodes(add_node(g, with_type(platform_types[1])), Tail(platform_types))

\* create_linear_template: the platforms pushed by the first loop
LinearPlatforms(count) ==
    [i \in 1..count |-> IF i - 1 = 0 THEN "Start"
                        ELSE IF i - 1 = count - 1 THEN "Goal" ELSE "Floating"]

\* create_linear_template: the connecting loop, from index i on; rng is <<>>
\* without a seed and <<state>> with one
RECURSIVE LinearConnect(_, _, _)
LinearConnect(g, i, rng) ==
    IF i >= Len(g.nodes) - 1 THEN g
    ELSE LET forward  == IF rng # None /\ random_bool(rng[1], 5)
                         THEN "RightUp" ELSE "Right"
             backward == IF forward = "RightUp" THEN "LeftDown" ELSE "Left"
             g1 == add_edge(g, i, i + 1, Jump(forward))
             g2 == add_edge(g1, i + 1, i, Jump(backward))
         IN  LinearConnect(g2, i + 1,
                           IF rng # None THEN Some(RngStep(rng[1])) ELSE None)

\* faulty variant of LinearCount: the range starts at 4
LinearCountFromFour(seedOpt) ==
    IF seedOpt # None THEN random_range(seed_from_u64(seedOpt[1]), 4, 8) ELSE 5

LinearCount(seedOpt) ==
    IF seedOpt # None THEN random_range(seed_from_u64(seedOpt[1]), 5, 8) ELSE 5

create_linear_template(seedOpt) ==
    LET count == LinearCount(seedOpt)
        g0    == AddNodes(NewGraph(0, count - 1), LinearPlatforms(count))
    IN  LinearConnect(g0, 0,
                      IF seedOpt # None THEN Some(seed_from_u64(seedOpt[1])) ELSE None)

create_branching_template ==
    AddJumps(
        AddNodes(NewGraph(0, 6),
                 <<"Start", "Floating", "Floating", "Floating", "Floating",
                   "Floating", "Goal">>),
        << <<0, 1, "RightUp">>, <<0, 3, "RightDown">>,
           <<1, 2, "Right">>, <<2, 5, "Right">>,
           <<3, 4, "Right">>, <<4, 5, "RightUp">>,
           <<5, 6, "Right">>,
           <<1, 0, "LeftDown">>, <<3, 0, "LeftUp">>,
           <<5, 2, "Left">>, <<5, 4, "LeftDown">> >>)

create_cul_de_sac_template ==
    AddJumps(
        AddNodes(NewGraph(0, 4),
                 <<"Start", "Floating", "Floating", "Floating", "Goal", "Floating">>),
        << <<0, 1, "Right">>, <<1, 3, "Right">>, <<3, 4, "Right">>,
           <<1, 2, "RightUp">>, <<2, 1, "LeftDown">>,
           <<3, 5, "RightUp">>, <<5, 3, "LeftDown">>,
           <<1, 0, "Left">>, <<3, 1, "Left">> >>)

\* create_zigzag_template: the connecting loop, from index i on
RECURSIVE ZigzagConnect(_, _)
ZigzagConnect(g, i) ==
    IF i >= Len(g.nodes) - 1 THEN g
    ELSE LET direction == IF i % 2 = 0 THEN "RightUp" ELSE "RightDown"
             back_direction == IF direction = "RightUp" THEN "LeftDown"
                               ELSE IF direction = "RightDown" THEN "LeftUp"
                               ELSE "Left"
             g1 == add_edge(g, i, i + 1, Jump(direction))
             g2 == add_edge(g1, i + 1, i, Jump(back_direction))
         IN  ZigzagConnect(g2, i + 1)

create_zigzag_template ==
    ZigzagConnect(
        AddNodes(NewGraph(0, 7),
                 <<"Start", "Floating", "Floating", "Floating", "Floating",
                   "Floating", "Floating", "Goal">>),
        0)

create_ground_and_floating_template ==
    AddJumps(
        AddNodes(NewGraph(0, 7),
                 <<"Start", "Grounded", "Grounded", "Floating", "Floating",
                   "Floating", "Grounded", "Goal">>),
        << <<0, 1, "Right">>, <<1, 0, "Left">>,
           <<1, 2, "Right">>, <<2, 1, "Left">>,
           <<2, 3, "RightUp">>, <<3, 2, "LeftDown">>,
           <<3, 4, "Right">>, <<4, 3, "Left">>,
           <<4, 5, "Right">>, <<5, 4, "Left">>,
           <<5, 6, "RightDown">>, <<6, 5, "LeftUp">>,
           <<6, 7, "Right">>, <<7, 6, "Left">> >>)

\* the template constructors as spawn_level and the tests call them: the
\* closures |s| create_linear_template(Some(s)) and |_| create_..._template()
Template(kind, s) ==
    CASE kind = "LinearNone"        -> create_linear_template(None)
      [] kind = "Linear"            -> create_linear_template(Some(s))
      [] kind = "Branching"         -> create_branching_template
      [] kind = "CulDeSac"          -> create_cul_de_sac_template
      [] kind = "Zigzag"            -> create_zigzag_template
      [] kind = "GroundAndFloating" -> create_ground_and_floating_template

\* faulty variant of RemapEdge: the target keeps its id in next_graph
RemapEdgeNoOffset(edge, node_offset) == edge

\* merge_graphs: an edge of next_graph with its target remapped
RemapEdge(edge, node_offset) == [edge EXCEPT !.to = @ + node_offset]

\* merge_graphs: a node of next_graph with all its edges remapped
RemapNode(node, node_offset) ==
    [node EXCEPT !.edges = [j \in 1..Len(node.edges) |->
                               RemapEdge(node.edges[j], node_offset)]]

\* faulty variant of IdMapping: the id in next_graph is used in merged
IdMappingNoOffset(merged_len, old_id) == old_id

\* merge_graphs: id_mapping[&old_id], the NodeId add_node returned for node
\* old_id of next_graph when merged held merged_len nodes before the loop
IdMapping(merged_len, old_id) == merged_len + old_id

\* faulty variant of MergeNext: the start of next_graph keeps its Start role
MergeNextKeepsStartRole(merged, node_offset, next_graph) ==
    LET m1 == IF HasNode(merged, merged.goal)
              THEN [merged EXCEPT !.nodes[merged.goal + 1].platform_type = "Floating"]
              ELSE merged
        n1 == next_graph
        old_merged_goal == m1.goal
        old_next_start  == n1.start
        m2 == [m1 EXCEPT !.nodes = @ \o [i \in 1..Len(n1.nodes) |->
                                            RemapNode(n1.nodes[i], node_offset)]]
        remapped_next_start == IdMapping(Len(m1.nodes), old_next_start)
        m3 == add_edge(m2, old_merged_goal, remapped_next_start, Jump("Right"))
        m4 == add_edge(m3, remapped_next_start, old_merged_goal, Jump("Left"))
    IN  [m4 EXCEPT !.goal = IdMapping(Len(m1.nodes), n1.goal)]

\* faulty variant of MergeNext: the edge back from the start of next_graph to
\* the old goal is not added
MergeNextOneWay(merged, node_offset, next_graph) ==
    LET m1 == IF HasNode(merged, merged.goal)
              THEN [merged EXCEPT !.nodes[merged.goal + 1].platform_type = "Floating"]
              ELSE merged
        n1 == IF HasNode(next_graph, next_graph.start)
              THEN [next_graph EXCEPT
                       !.nodes[next_graph.start + 1].platform_type = "Floating"]
              ELSE next_graph
        old_merged_goal == m1.goal
        old_next_start  == n1.start
        m2 == [m1 EXCEPT !.nodes = @ \o [i \in 1..Len(n1.nodes) |->
                                            RemapNode(n1.nodes[i], node_offset)]]
        remapped_next_start == IdMapping(Len(m1.nodes), old_next_start)
        m3 == add_edge(m2, old_merged_goal, remapped_next_start, Jump("Right"))
    IN  [m3 EXCEPT !.goal = IdMapping(Len(m1.nodes), n1.goal)]

\* merge_graphs: one iteration of the loop over the remaining graphs
MergeNext(merged, node_offset, next_graph) ==
    LET m1 == IF HasNode(merged, merged.goal)
              THEN [merged EXCEPT !.nodes[merged.goal + 1].platform_type = "Floating"]
              ELSE merged
        n1 == IF HasNode(next_graph, next_graph.start)
              THEN [next_graph EXCEPT
                       !.nodes[next_graph.start + 1].platform_type = "Floating"]
              ELSE next_graph
        old_merged_goal == m1.goal
        old_next_start  == n1.start
        m2 == [m1 EXCEPT !.nodes = @ \o [i \in 1..Len(n1.nodes) |->
                                            RemapNode(n1.nodes[i], node_offset)]]
        remapped_next_start == IdMapping(Len(m1.nodes), old_next_start)
        m3 == add_edge(m2, old_merged_goal, remapped_next_start, Jump("Right"))
        m4 == add_edge(m3, remapped_next_start, old_merged_goal, Jump("Left"))
    IN  [m4 EXCEPT !.goal = IdMapping(Len(m1.nodes), n1.goal)]

\* merge_graphs: the loop; node_offset is updated at the end of each iteration
RECURSIVE MergeLoop(_, _, _)
MergeLoop(merged, node_offset, rest) ==
    IF rest = <<>> THEN merged
    ELSE LET m == MergeNext(merged, node_offset, rest[1])
         IN  MergeLoop(m, Len(m.nodes), Tail(rest))

\* merge_graphs, for a non-empty list (an empty one panics)
merge_graphs(gs) ==
    IF Len(gs) = 1 THEN gs[1]
    ELSE MergeLoop(gs[1], Len(gs[1].nodes), Tail(gs))

-----------------------------------------------------------------------------
(* causality.rs *)

\* Effect: the tag and, for ContainerFilled(i), the index
WaterBucket == [tag |-> "WaterBucket", arg |-> 0]
SnowBucket == [tag |-> "SnowBucket", arg |-> 0]
ContainerFilled(i) == [tag |-> "ContainerFilled", arg |-> i]

\* Cause
Player == [kind |-> "Player", content |-> "Empty", location |-> 0, effects |-> <<>>]
BucketAt(content, location) ==
    [kind |-> "BucketAt", content |-> content, location |-> location, effects |-> <<>>]
RequiresAny(effects) ==
    [kind |-> "RequiresAny", content |-> "Empty", location |-> 0, effects |-> effects]
RequiresAll(effects) ==
    [kind |-> "RequiresAll", content |-> "Empty", location |-> 0, effects |-> effects]

CausalityNode(effect, cause, terrain, location) ==
    [effect |-> effect, cause |-> cause, terrain |-> terrain, location |-> location]

\* CausalityChain::new
NewChain(goal) == [nodes |-> <<>>, goal |-> goal]

\* CausalityChain::add_node
chain_add_node(c, node) == [c EXCEPT !.nodes = Append(@, node)]

\* CausalityChain::validate: the loop over forward_order(), which is
\* nodes.iter().rev(); i is the storage index of the node processed next and
\* 0 after the last one
RECURSIVE ValidateLoop(_, _, _)
ValidateLoop(c, i, achieved) ==
    IF i = 0
    THEN IF c.goal \in achieved THEN "Ok" ELSE "ErrGoalNotAchieved"
    ELSE LET node    == c.nodes[i]
             effects == node.cause.effects
         IN  IF /\ node.cause.kind = "RequiresAny"
                /\ ~ \E k \in 1..Len(effects) : effects[k] \in achieved
             THEN "ErrRequiresOneOf"
             ELSE IF /\ node.cause.kind = "RequiresAll"
                     /\ \E k \in 1..Len(effects) : effects[k] \notin achieved
             THEN "ErrRequires"
             ELSE ValidateLoop(c, i - 1, achieved \cup {node.effect})

\* faulty variant of chain_validate: the nodes are processed in storage order
RECURSIVE ValidateLoopStorageOrder(_, _, _)
ValidateLoopStorageOrder(c, i, achieved) ==
    IF i > Len(c.nodes)
    THEN IF c.goal \in achieved THEN "Ok" ELSE "ErrGoalNotAchieved"
    ELSE LET node    == c.nodes[i]
             effects == node.cause.effects
         IN  IF /\ node.cause.kind = "RequiresAny"
                /\ ~ \E k \in 1..Len(effects) : effects[k] \in achieved
             THEN "ErrRequiresOneOf"
             ELSE IF /\ node.cause.kind = "RequiresAll"
                     /\ \E k \in 1..Len(effects) : effects[k] \notin achieved
             THEN "ErrRequires"
             ELSE ValidateLoopStorageOrder(c, i + 1, achieved \cup {node.effect})

chain_validate_storage_order(c) == ValidateLoopStorageOrder(c, 1, {})

\* CausalityChain::validate
chain_validate(c) == ValidateLoop(c, Len(c.nodes), {})

\* CausalityChain::terrain_by_location: the keys of the map
TerrainLocations(c) == {c.nodes[i].location : i \in 1..Len(c.nodes)}

\* CausalityChain::terrain_by_location: the Vec stored under key location
TerrainAt(c, location) ==
    LET here == SelectSeq(c.nodes, LAMBDA n : n.location = location)
    IN  [i \in 1..Len(here) |-> here[i].terrain]

-----------------------------------------------------------------------------
(* generator.rs: CausalityGenerator.  A generator value gen holds the rng,   *)
(* the chain under construction, whether a step has returned Err (ok is     *)
(* FALSE) and whether a step has panicked.                                  *)

\* Difficulty::chain_length_range: <<min, max>>
chain_length_range(d) ==
    IF d = "Easy" THEN <<2, 4>>
    ELSE IF d = "Medium" THEN <<4, 7>>
    ELSE <<7, 12>>

\* faulty variant of AvailableNodes: the filter lets no node through
AvailableNodesNone(g) == SelectSeq(reachable_from(g, g.start), LAMBDA n : FALSE)

\* faulty variant of AvailableNodes: the goal node is a candidate
AvailableNodesWithGoal(g) == reachable_from(g, g.start)

\* the candidates of add_simple_water_source and add_fire_conversion_step
AvailableNodes(g) ==
    SelectSeq(reachable_from(g, g.start), LAMBDA n : n # g.goal)

\* available_nodes[self.rng.random_range(0..available_nodes.len())]
PickNode(rng, available) == available[random_range(rng, 0, Len(available) - 1) + 1]

add_simple_water_source(gen, g) ==
    LET available == AvailableNodes(g)
    IN  IF ReachPanics(g, g.start)
        THEN [gen EXCEPT !.ok = FALSE, !.panicked = TRUE]
        ELSE IF available = <<>>
        THEN [gen EXCEPT !.ok = FALSE]
        ELSE [gen EXCEPT
                 !.rng = RngStep(@),
                 !.chain = chain_add_node(@,
                     CausalityNode(WaterBucket, Player, "WaterSource",
                                   PickNode(gen.rng, available)))]

\* add_fire_conversion_step: the loop that redraws fire_node; the result is
\* <<fire_node, rng>>
RECURSIVE RedrawFire(_, _, _, _)
RedrawFire(rng, available, snow_node, fire_node) ==
    IF fire_node = snow_node /\ Len(available) > 1
    THEN RedrawFire(RngStep(rng), available, snow_node, PickNode(rng, available))
    ELSE <<fire_node, rng>>

\* faulty variant of add_fire_conversion_step: one candidate node is enough
add_fire_conversion_step_one_site(gen, g) ==
    LET available == AvailableNodes(g)
    IN  IF ReachPanics(g, g.start)
        THEN [gen EXCEPT !.ok = FALSE, !.panicked = TRUE]
        ELSE IF Len(available) < 1
        THEN [gen EXCEPT !.ok = FALSE]
        ELSE LET snow_node == PickNode(gen.rng, available)
                 rng1      == RngStep(gen.rng)
                 drawn     == RedrawFire(RngStep(rng1), available, snow_node,
                                         PickNode(rng1, available))
                 fire_node == drawn[1]
                 c1 == chain_add_node(gen.chain,
                           CausalityNode(SnowBucket, Player, "SnowSource", snow_node))
                 c2 == chain_add_node(c1,
                           CausalityNode(WaterBucket, BucketAt("Snow", fire_node),
                                         "Fire", fire_node))
             IN  [gen EXCEPT !.rng = drawn[2], !.chain = c2]

add_fire_conversion_step(gen, g) ==
    LET available == AvailableNodes(g)
    IN  IF ReachPanics(g, g.start)
        THEN [gen EXCEPT !.ok = FALSE, !.panicked = TRUE]
        ELSE IF Len(available) < 2
        THEN [gen EXCEPT !.ok = FALSE]
        ELSE LET snow_node == PickNode(gen.rng, available)
                 rng1      == RngStep(gen.rng)
                 drawn     == RedrawFire(RngStep(rng1), available, snow_node,
                                         PickNode(rng1, available))
                 fire_node == drawn[1]
                 c1 == chain_add_node(gen.chain,
                           CausalityNode(SnowBucket, Player, "SnowSource", snow_node))
                 c2 == chain_add_node(c1,
                           CausalityNode(WaterBucket, BucketAt("Snow", fire_node),
                                         "Fire", fire_node))
             IN  [gen EXCEPT !.rng = drawn[2], !.chain = c2]

\* faulty variant of add_water_source_step: the difficulty is not consulted
add_water_source_step_any_difficulty(gen, d, g) ==
    LET use_fire == random_bool(gen.rng, 3)
        gen1     == [gen EXCEPT !.rng = RngStep(@)]
    IN  IF use_fire
        THEN add_fire_conversion_step(gen1, g)
        ELSE add_simple_water_source(gen1, g)

add_water_source_step(gen, d, g) ==
    LET use_fire == random_bool(gen.rng, 3)
        gen1     == [gen EXCEPT !.rng = RngStep(@)]
    IN  IF use_fire /\ d # "Easy"
        THEN add_fire_conversion_step(gen1, g)
        ELSE add_simple_water_source(gen1, g)

\* the container-fill step pushed by generate_chain for fill index i
FillStep(i, goal_node) ==
    CausalityNode(ContainerFilled(i), BucketAt("Water", goal_node),
                  "GoalContainer", goal_node)

\* faulty variant of generate_chain: the chain's goal is declared as the fill
\* with index 2
generate_chain_goal_index_two(d, s, g) ==
    LET goal_node == g.goal
        gen0 == [rng |-> seed_from_u64(s), ok |-> TRUE, panicked |-> FALSE,
                 chain |-> chain_add_node(NewChain(ContainerFilled(2)),
                                          FillStep(1, goal_node))]
        gen1 == add_water_source_step(gen0, d, g)
        gen2 == [gen1 EXCEPT !.chain = chain_add_node(@, FillStep(0, goal_node))]
        gen3 == add_water_source_step(gen2, d, g)
    IN  IF ~ gen1.ok THEN gen1 ELSE gen3

\* faulty variant of generate_chain: the fill with index 0 is pushed first and
\* the fill with index 1 after the first water step
generate_chain_fills_swapped(d, s, g) ==
    LET goal_node == g.goal
        gen0 == [rng |-> seed_from_u64(s), ok |-> TRUE, panicked |-> FALSE,
                 chain |-> chain_add_node(NewChain(ContainerFilled(1)),
                                          FillStep(0, goal_node))]
        gen1 == add_water_source_step(gen0, d, g)
        gen2 == [gen1 EXCEPT !.chain = chain_add_node(@, FillStep(1, goal_node))]
        gen3 == add_water_source_step(gen2, d, g)
    IN  IF ~ gen1.ok THEN gen1 ELSE gen3

\* CausalityGenerator::new followed by generate_chain; ok is FALSE for Err
\* (the ? operator returns the first Err) and for a panic
generate_chain(d, s, g) ==
    LET goal_node == g.goal
        gen0 == [rng |-> seed_from_u64(s), ok |-> TRUE, panicked |-> FALSE,
                 chain |-> chain_add_node(NewChain(ContainerFilled(1)),
                                          FillStep(1, goal_node))]
        gen1 == add_water_source_step(gen0, d, g)
        gen2 == [gen1 EXCEPT !.chain = chain_add_node(@, FillStep(0, goal_node))]
        gen3 == add_water_source_step(gen2, d, g)
    IN  IF ~ gen1.ok THEN gen1 ELSE gen3

\* faulty variant of AddTerrain: every terrain object is added
RECURSIVE AddTerrainNoDedup(_, _)
AddTerrainNoDedup(node, terrain_objects) ==
    IF terrain_objects = <<>> THEN node
    ELSE AddTerrainNoDedup([node EXCEPT !.terrain_objects =
                                            Append(@, terrain_objects[1])],
                           Tail(terrain_objects))

\* apply_chain_to_graph: node.add_terrain for the objects of one map entry,
\* skipping a GoalContainer when the node already holds one
RECURSIVE AddTerrain(_, _)
AddTerrain(node, terrain_objects) ==
    IF terrain_objects = <<>> THEN node
    ELSE LET terrain == terrain_objects[1]
             has_container ==
                 \E k \in 1..Len(node.terrain_objects) :
                     node.terrain_objects[k] = "GoalContainer"
             node1 == IF terrain = "GoalContainer" /\ has_container
                      THEN node
                      ELSE [node EXCEPT !.terrain_objects = Append(@, terrain)]
         IN  AddTerrain(node1, Tail(terrain_objects))

\* apply_chain_to_graph: the body of the loop for one entry of terrain_map
\* whose node exists
ApplyToNode(node, terrain_objects) ==
    LET has_water_source ==
            \E k \in 1..Len(terrain_objects) : terrain_objects[k] = "WaterSource"
        min_width == 9 * TILE_SIZE
        sized == IF has_water_source
                 THEN [node EXCEPT !.height = 2,
                                   !.width = IF @ < min_width THEN min_width ELSE @]
                 ELSE node
    IN  AddTerrain(sized, terrain_objects)

-----------------------------------------------------------------------------
(* graph.rs: the layout engine *)

HoldsWaterSource(node) ==
    \E k \in 1..Len(node.terrain_objects) : node.terrain_objects[k] = "WaterSource"

\* faulty variant of calculate_width: a water platform gets the standard width
calculate_width_standard(node) ==
    IF node.platform_type \in {"Start", "Goal"} THEN TILE_SIZE * 9 ELSE TILE_SIZE * 4

\* PlatformNode::calculate_width, in world units
calculate_width(node) ==
    IF node.platform_type \in {"Start", "Goal"} THEN TILE_SIZE * 9
    ELSE IF HoldsWaterSource(node) THEN TILE_SIZE * 9 ELSE TILE_SIZE * 4

\* PlatformNode::calculate_height
calculate_height(node) ==
    IF node.platform_type \in {"Start", "Goal"} THEN 2
    ELSE IF HoldsWaterSource(node) THEN 2 ELSE 1

\* (node.calculate_width() / 32.0) as i32
WidthTiles(node) == calculate_width(node) \div 32

PlatformLayout(grid_x, grid_y, width_tiles, height_tiles) ==
    [grid_x |-> grid_x, grid_y |-> grid_y,
     width_tiles |-> width_tiles, height_tiles |-> height_tiles]

\* generate_layout: the (x_direction, y_bias) pair of a direction hint
XDirection(direction) == IF direction \in {"Right", "RightUp", "RightDown"} THEN 1 ELSE -1

YBias(direction) ==
    IF direction \in {"RightUp", "LeftUp"} THEN 1
    ELSE IF direction \in {"RightDown", "LeftDown"} THEN -1 ELSE 0

Max(a, b) == IF a >= b THEN a ELSE b

Abs(a) == IF a >= 0 THEN a ELSE -a

\* faulty variant of ClampRow: the .max(0) is missing
ClampRowUnclamped(grid_y) == grid_y

\* (current_layout.grid_y + y_delta).max(0)
ClampRow(grid_y) == Max(grid_y, 0)

\* generate_layout: the row of the next platform, from the source row, the
\* drawn y_delta and the horizontal distance of the two grid origins
NextGridY(current_layout, y_delta, next_grid_x) ==
    LET next_grid_y     == ClampRow(current_layout.grid_y + y_delta)
        horizontal_dist == Abs(next_grid_x - current_layout.grid_x)
        vertical_dist   == next_grid_y - current_layout.grid_y
    IN  IF \/ horizontal_dist > MAX_JUMP_DISTANCE_TILES
           \/ vertical_dist > MAX_JUMP_HEIGHT_TILES
        THEN ClampRow(current_layout.grid_y + (MAX_HEIGHT_DELTA_TILES - 1))
        ELSE next_grid_y

\* generate_layout: the column of the next platform
NextGridX(current_layout, x_direction, gap_tiles, next_width_tiles) ==
    IF x_direction > 0
    THEN current_layout.grid_x + current_layout.width_tiles + gap_tiles
    ELSE current_layout.grid_x - gap_tiles - next_width_tiles

\* faulty variant of PlaceEdge: an edge into a placed node consumes a draw
PlaceEdgeDrawsOnSkip(g, st, current_id, current_layout, edge) ==
    IF edge.to \in DOMAIN st.layouts
    THEN [st EXCEPT !.rng = RngStep(@)]
    ELSE IF ~ HasNode(g, edge.to)
    THEN [st EXCEPT !.panicked = TRUE]
    ELSE LET next_node == get_node(g, edge.to)
             next_width_tiles  == WidthTiles(next_node)
             next_height_tiles == calculate_height(next_node)
             direction == DirectionOf(edge.connection_type)
             gap_tiles == random_range(st.rng, MIN_HORIZONTAL_SPACING_TILES,
                                       MAX_HORIZONTAL_SPACING_TILES)
             rng1 == RngStep(st.rng)
             next_grid_x == NextGridX(current_layout, XDirection(direction),
                                      gap_tiles, next_width_tiles)
             y_delta == IF YBias(direction) # 0
                        THEN random_range(rng1, 0, MAX_HEIGHT_DELTA_TILES)
                             * YBias(direction)
                        ELSE random_range(rng1, MIN_HEIGHT_DELTA_TILES,
                                          MAX_HEIGHT_DELTA_TILES)
             next_grid_y == NextGridY(current_layout, y_delta, next_grid_x)
         IN  [st EXCEPT
                 !.rng = RngStep(rng1),
                 !.layouts = @ @@ (edge.to :> PlatformLayout(next_grid_x, next_grid_y,
                                       next_width_tiles, next_height_tiles)),
                 !.placed_by = @ @@ (edge.to :> current_id),
                 !.queue = Append(@, edge.to)]

\* generate_layout: the body of the loop over current_node.edges for one edge.
\* st holds layouts, queue, visited and rng; placed_by records, for every node
\* but the start, the node whose edge placed it (history, not program state);
\* get_node(edge.to).unwrap() panics when the target is out of range
PlaceEdge(g, st, current_id, current_layout, edge) ==
    IF edge.to \in DOMAIN st.layouts
    THEN st
    ELSE IF ~ HasNode(g, edge.to)
    THEN [st EXCEPT !.panicked = TRUE]
    ELSE LET next_node == get_node(g, edge.to)
             next_width_tiles  == WidthTiles(next_node)
             next_height_tiles == calculate_height(next_node)
             direction == DirectionOf(edge.connection_type)
             gap_tiles == random_range(st.rng, MIN_HORIZONTAL_SPACING_TILES,
                                       MAX_HORIZONTAL_SPACING_TILES)
             rng1 == RngStep(st.rng)
             next_grid_x == NextGridX(current_layout, XDirection(direction),
                                      gap_tiles, next_width_tiles)
             y_delta == IF YBias(direction) # 0
                        THEN random_range(rng1, 0, MAX_HEIGHT_DELTA_TILES)
                             * YBias(direction)
                        ELSE random_range(rng1, MIN_HEIGHT_DELTA_TILES,
                                          MAX_HEIGHT_DELTA_TILES)
             next_grid_y == NextGridY(current_layout, y_delta, next_grid_x)
         IN  [st EXCEPT
                 !.rng = RngStep(rng1),
                 !.layouts = @ @@ (edge.to :> PlatformLayout(next_grid_x, next_grid_y,
                                       next_width_tiles, next_height_tiles)),
                 !.placed_by = @ @@ (edge.to :> current_id),
                 !.queue = Append(@, edge.to)]

\* faulty variant of PlaceEdges: only the first edge of a node is followed
PlaceEdgesFirstOnly(g, st, current_id, current_layout, edges) ==
    IF edges = <<>> \/ st.panicked THEN st
    ELSE PlaceEdge(g, st, current_id, current_layout, edges[1])

\* history: what one pass of the loop body did for edge, from the state st
\* before it and the state after it
EdgeVisit(st, after, current_id, edge) ==
    [from       |-> current_id,
     to         |-> edge.to,
     direction  |-> DirectionOf(edge.connection_type),
     was_placed |-> edge.to \in DOMAIN st.layouts,
     kept       |-> \A n \in DOMAIN st.layouts :
                        /\ n \in DOMAIN after.layouts
                        /\ after.layouts[n] = st.layouts[n],
     added      |-> DOMAIN after.layouts \ DOMAIN st.layouts,
     rng_before |-> st.rng,
     rng_after  |-> after.rng]

\* generate_layout: the loop over current_node.edges; edge_log gets one record
\* per pass (history, not program state)
RECURSIVE PlaceEdges(_, _, _, _, _)
PlaceEdges(g, st, current_id, current_layout, edges) ==
    IF edges = <<>> \/ st.panicked THEN st
    ELSE LET after == PlaceEdge(g, st, current_id, current_layout, edges[1])
         IN  PlaceEdges(g,
                        [after EXCEPT !.edge_log =
                             Append(@, EdgeVisit(st, after, current_id, edges[1]))],
                        current_id, current_layout, Tail(edges))

\* generate_layout: the loop over the queue
RECURSIVE LayoutLoop(_, _)
LayoutLoop(g, st) ==
    IF st.queue = <<>> \/ st.panicked THEN st
    ELSE LET current_id == Head(st.queue)
             popped     == [st EXCEPT !.queue = Tail(@)]
         IN  IF current_id \in st.visited
             THEN LayoutLoop(g, popped)
             ELSE LayoutLoop(g,
                      PlaceEdges(g, [popped EXCEPT !.visited = @ \cup {current_id}],
                                 current_id, st.layouts[current_id],
                                 get_node(g, current_id).edges))

\* faulty variant of LayoutStart: the generator is not seeded afresh but keeps
\* what an earlier run left behind
LayoutStartCarriedOver(g, s) ==
    LET start_node == get_node(g, g.start)
    IN  [rng |-> seed_from_u64(s + Len(first)),
         layouts |-> (g.start :> PlatformLayout(2, 0, WidthTiles(start_node),
                                                calculate_height(start_node))),
         placed_by |-> << >>, edge_log |-> << >>,
         visited |-> {},
         queue |-> <<g.start>>,
         panicked |-> FALSE]

\* generate_layout up to the loop: the start node pinned at grid origin (2, 0);
\* get_node(start).unwrap() panics when start is out of range
LayoutStart(g, s) ==
    IF ~ HasNode(g, g.start)
    THEN [rng |-> seed_from_u64(s), layouts |-> << >>, placed_by |-> << >>,
          edge_log |-> << >>,
          visited |-> {}, queue |-> << >>, panicked |-> TRUE]
    ELSE LET start_node == get_node(g, g.start)
         IN  [rng |-> seed_from_u64(s),
              layouts |-> (g.start :> PlatformLayout(2, 0, WidthTiles(start_node),
                                                     calculate_height(start_node))),
              placed_by |-> << >>, edge_log |-> << >>,
              visited |-> {},
              queue |-> <<g.start>>,
              panicked |-> FALSE]

\* PlatformGraph::generate_layout
generate_layout(g, s) == LayoutLoop(g, LayoutStart(g, s))

-----------------------------------------------------------------------------
(* The generation pipeline of one attempt (mod.rs spawn_level, example.rs): *)
(* build the templates, merge them, generate and validate the chain, apply  *)
(* it to the graph, lay the graph out.                                      *)

\* the lists of template constructors a level is built from
KindLists == UNION {[1..n -> TemplateKinds] : n \in 1..MaxMergedGraphs}

NoGraph == NewGraph(0, 0)

NoLevel ==
    [season |-> "Summer", game_level |-> 0, completed_year |-> FALSE, seed |-> 0]

NoChain ==
    [rng |-> 0, ok |-> FALSE, panicked |-> FALSE,
     chain |-> NewChain(ContainerFilled(1))]

\* the locals of add_fire_conversion_step before it has run; redrawn is
\* history: whether the loop body has run
NoFireStep ==
    [available |-> <<>>, snow_node |-> 0, fire_node |-> 0, redrawn |-> FALSE]

\* the seed spawn_level hands to the i-th template constructor: attempt_seed
\* on Easy, attempt_seed.wrapping_add(i) on Medium and Hard
TemplateSeed(d, s, i) == IF d = "Easy" THEN s ELSE s + i

Init ==
    /\ pc = "template"
    /\ difficulty \in Difficulties
    /\ seed \in 0..MaxSeed
    /\ kinds \in KindLists
    /\ graphs = <<>>
    /\ graph = NoGraph
    /\ chain = NoChain
    /\ pending = {}
    /\ layouts = <<>>
    /\ placed_by = <<>>
    /\ edge_log = <<>>
    /\ fire_step = NoFireStep
    /\ first = <<>>
    /\ verdict = "None"
    /\ result = <<>>
    /\ level = NoLevel
    /\ attempt = 0
    /\ spawned = <<>>

\* one template constructor call
CreateTemplate ==
    /\ pc = "template"
    /\ Len(graphs) < Len(kinds)
    /\ graphs' = Append(graphs,
                    Template(kinds[Len(graphs) + 1],
                             TemplateSeed(difficulty, seed, Len(graphs) + 1)))
    /\ UNCHANGED <<pc, difficulty, seed, kinds, graph, chain, pending,
                   layouts, placed_by, edge_log, first, verdict, result,
                   level, attempt, spawned, fire_step>>

\* merge_graphs(graphs)
Merge ==
    /\ pc = "template"
    /\ Len(graphs) = Len(kinds)
    /\ graph' = merge_graphs(graphs)
    /\ graphs' = <<>>
    /\ pc' = "chain"
    /\ UNCHANGED <<difficulty, seed, kinds, chain, pending, layouts,
                   placed_by, edge_log, first, verdict, result, level,
                   attempt, spawned, fire_step>>

\* CausalityGenerator::new(config).generate_chain(&graph)
GenerateChain ==
    /\ pc = "chain"
    /\ chain' = generate_chain(difficulty, seed, graph)
    /\ pc' = IF chain'.panicked THEN "aborted"
             ELSE IF chain'.ok THEN "validate" ELSE "failed"
    /\ UNCHANGED <<difficulty, seed, kinds, graphs, graph, pending, layouts,
                   placed_by, edge_log, first, verdict, result, level,
                   attempt, spawned, fire_step>>

\* chain.validate(), and the terrain_map apply_chain_to_graph starts from
ValidateChain ==
    /\ pc = "validate"
    /\ verdict' = chain_validate(chain.chain)
    /\ pc' = IF verdict' = "Ok" THEN "apply" ELSE "failed"
    /\ pending' = TerrainLocations(chain.chain)
    /\ UNCHANGED <<difficulty, seed, kinds, graphs, graph, chain, layouts,
                   placed_by, edge_log, first, result, level, attempt,
                   spawned, fire_step>>

\* apply_chain_to_graph: one iteration of the loop over terrain_map, a HashMap
\* whose iteration order is unspecified
ApplyEntry ==
    /\ pc = "apply"
    /\ \E node_id \in pending :
         IF ~ HasNode(graph, node_id)
         THEN /\ pc' = "failed"
              /\ UNCHANGED <<graph, pending>>
         ELSE /\ graph' = [graph EXCEPT !.nodes[node_id + 1] =
                              ApplyToNode(@, TerrainAt(chain.chain, node_id))]
              /\ pending' = pending \ {node_id}
              /\ pc' = IF pending' = {} THEN "layout" ELSE "apply"
    /\ UNCHANGED <<difficulty, seed, kinds, graphs, chain, layouts, placed_by,
                   edge_log, first, verdict, result, level, attempt, spawned,
                   fire_step>>

\* graph.generate_layout(seed)
GenerateLayout ==
    /\ pc = "layout"
    /\ LET st == generate_layout(graph, seed)
       IN  /\ layouts' = st.layouts
           /\ placed_by' = st.placed_by
           /\ edge_log' = st.edge_log
           /\ pc' = IF st.panicked THEN "aborted" ELSE "done"
    /\ UNCHANGED <<difficulty, seed, kinds, graphs, graph, chain, pending,
                   first, verdict, result, level, attempt, spawned,
                   fire_step>>

Next ==
    \/ CreateTemplate
    \/ Merge
    \/ GenerateChain
    \/ ValidateChain
    \/ ApplyEntry
    \/ GenerateLayout

Spec == Init /\ [][Next]_vars

-----------------------------------------------------------------------------
(* Two runs of the pipeline on the same input *)

\* what a run hands to the spawning code
Outcome == [graph |-> graph, layouts |-> layouts]

\* the first run is over: keep its outcome and run again on the same
\* difficulty, seed and template constructors
Rerun ==
    /\ pc = "done"
    /\ first = <<>>
    /\ first' = <<Outcome>>
    /\ pc' = "template"
    /\ graphs' = <<>>
    /\ graph' = NoGraph
    /\ chain' = NoChain
    /\ pending' = {}
    /\ layouts' = <<>>
    /\ placed_by' = <<>>
    /\ edge_log' = <<>>
    /\ verdict' = "None"
    /\ UNCHANGED <<difficulty, seed, kinds, result, level, attempt, spawned,
                   fire_step>>

NextTwice ==
    \/ Next
    \/ Rerun

SpecTwice == Init /\ [][NextTwice]_vars

-----------------------------------------------------------------------------
(* CausalityChain::validate on arbitrary chains *)

\* the effects and causes the input chains are built from
InputEffects == {WaterBucket, ContainerFilled(0)}

InputEffectLists ==
    {<<>>, <<WaterBucket>>, <<ContainerFilled(0)>>,
     <<WaterBucket, ContainerFilled(0)>>}

InputCauses ==
    {Player, BucketAt("Water", 0)}
        \cup {RequiresAny(es) : es \in InputEffectLists}
        \cup {RequiresAll(es) : es \in InputEffectLists}

InputNodes ==
    {CausalityNode(e, c, "WaterSource", 0) : e \in InputEffects, c \in InputCauses}

InputChains ==
    {[nodes |-> ns, goal |-> e] :
        ns \in UNION {[1..n -> InputNodes] : n \in 0..MaxChainLen},
        e \in InputEffects}

InitValidate ==
    /\ pc = "input"
    /\ chain \in {[rng |-> 0, ok |-> TRUE, panicked |-> FALSE, chain |-> c] :
                    c \in InputChains}
    /\ difficulty = "Easy"
    /\ seed = 0
    /\ kinds = <<>>
    /\ graphs = <<>>
    /\ graph = NoGraph
    /\ pending = {}
    /\ layouts = <<>>
    /\ placed_by = <<>>
    /\ edge_log = <<>>
    /\ fire_step = NoFireStep
    /\ first = <<>>
    /\ verdict = "None"
    /\ result = <<>>
    /\ level = NoLevel
    /\ attempt = 0
    /\ spawned = <<>>

\* chain.validate() on the input chain
ValidateInput ==
    /\ pc = "input"
    /\ verdict' = chain_validate(chain.chain)
    /\ pc' = "validated"
    /\ UNCHANGED <<difficulty, seed, kinds, graphs, graph, chain, pending,
                   layouts, placed_by, edge_log, first, result, level,
                   attempt, spawned, fire_step>>

NextValidate == ValidateInput

SpecValidate == InitValidate /\ [][NextValidate]_vars

-----------------------------------------------------------------------------
(* mod.rs spawn_level: the seed and difficulty of the level, the retry loop *)
(* around the generation pipeline, and the fallback level.                  *)

Seasons == {"Summer", "Autumn", "Winter", "Spring"}

\* *season as u64
SeasonIndex(season) ==
    CASE season = "Summer" -> 0
      [] season = "Autumn" -> 1
      [] season = "Winter" -> 2
      [] season = "Spring" -> 3

\* the seed of the level; random_offset is drawn only after a completed year.
\* game_level is a u8 and random_offset is below 1000000, so the wrapping
\* additions of spawn_level never wrap
LevelSeed(season, game_level, completed_year, random_offset) ==
    IF completed_year
    THEN SeasonIndex(season) * 1000 + game_level + random_offset
    ELSE SeasonIndex(season) * 1000 + game_level

\* the difficulty of the level
LevelDifficulty(season, completed_year) ==
    IF completed_year THEN "Hard"
    ELSE CASE season = "Summer" -> "Easy"
           [] season = "Autumn" -> "Medium"
           [] season = "Winter" -> "Medium"
           [] season = "Spring" -> "Hard"

\* seed.wrapping_add(attempt as u64 * 10000)
AttemptSeed(s, a) == s + a * 10000

\* the template tables of the Easy branch and of the Medium and Hard branches
EasyTemplates == <<"Linear", "Zigzag", "GroundAndFloating">>

MergeTemplates ==
    <<"Linear", "Branching", "CulDeSac", "Zigzag", "GroundAndFloating">>

\* templates[rng.random_range(0..templates.len())]
PickTemplate(rng, templates) ==
    templates[random_range(rng, 0, Len(templates) - 1) + 1]

\* the template constructors an attempt selects, drawn from a generator
\* seeded with attempt_seed
SpawnKinds(lv, d, attempt_seed) ==
    LET rng0 == seed_from_u64(attempt_seed)
        rng1 == RngStep(rng0)
        rng2 == RngStep(rng1)
        is_first_level == lv.season = "Summer" /\ lv.game_level = 1
    IN  CASE d = "Easy" ->
                 IF is_first_level THEN <<"Linear">>
                 ELSE <<PickTemplate(rng0, EasyTemplates)>>
          [] d = "Medium" ->
                 <<PickTemplate(rng0, MergeTemplates),
                   PickTemplate(rng1, MergeTemplates)>>
          [] d = "Hard" ->
                 <<PickTemplate(rng0, MergeTemplates),
                   PickTemplate(rng1, MergeTemplates),
                   PickTemplate(rng2, MergeTemplates)>>

\* what spawn_level_from_graph is handed
Level(g, l) == [graph |-> g, layouts |-> l]

InitSpawn ==
    /\ pc = "select"
    /\ \E season \in Seasons, game_level \in 0..MaxLevel,
          completed_year \in BOOLEAN, random_offset \in 0..MaxSeed :
         /\ level = [season |-> season, game_level |-> game_level,
                     completed_year |-> completed_year,
                     seed |-> LevelSeed(season, game_level, completed_year,
                                        random_offset)]
         /\ difficulty = LevelDifficulty(season, completed_year)
    /\ attempt = 0
    /\ seed = AttemptSeed(level.seed, 0)
    /\ kinds = <<>>
    /\ graphs = <<>>
    /\ graph = NoGraph
    /\ chain = NoChain
    /\ pending = {}
    /\ layouts = <<>>
    /\ placed_by = <<>>
    /\ edge_log = <<>>
    /\ fire_step = NoFireStep
    /\ first = <<>>
    /\ verdict = "None"
    /\ result = <<>>
    /\ spawned = <<>>

\* the head of the loop body: the template constructors of this attempt
SelectTemplates ==
    /\ pc = "select"
    /\ kinds' = SpawnKinds(level, difficulty, seed)
    /\ pc' = "template"
    /\ UNCHANGED <<difficulty, seed, graphs, graph, chain, pending, layouts,
                   placed_by, edge_log, first, verdict, result, level,
                   attempt, spawned, fire_step>>

\* a call of the condition `generate_chain is Ok && validate is Ok &&
\* apply_chain_to_graph is Ok` returns Err.  With the templates of
\* spawn_level no call does; the loop is checked for every outcome of the
\* three calls, so that each of them may also fail here
StageFails ==
    /\ pc \in {"chain", "validate", "apply"}
    /\ pc' = "failed"
    /\ UNCHANGED <<difficulty, seed, kinds, graphs, graph, chain, pending,
                   layouts, placed_by, edge_log, first, verdict, result,
                   level, attempt, spawned, fire_step>>

\* the body of the if: lay the graph out, spawn the level and return
SpawnGenerated ==
    /\ pc = "layout"
    /\ LET st == generate_layout(graph, seed)
       IN  /\ layouts' = st.layouts
           /\ placed_by' = st.placed_by
           /\ edge_log' = st.edge_log
           /\ spawned' = Append(spawned, Level(graph, st.layouts))
           /\ pc' = IF st.panicked THEN "aborted" ELSE "spawned"
    /\ UNCHANGED <<difficulty, seed, kinds, graphs, graph, chain, pending,
                   first, verdict, result, level, attempt, fire_step>>

\* the attempt failed and the loop has another iteration: the graph, the
\* generator and the chain of the failed attempt are dropped
Retry ==
    /\ pc = "failed"
    /\ attempt + 1 < max_retries
    /\ attempt' = attempt + 1
    /\ seed' = AttemptSeed(level.seed, attempt + 1)
    /\ kinds' = <<>>
    /\ graphs' = <<>>
    /\ graph' = NoGraph
    /\ chain' = NoChain
    /\ pending' = {}
    /\ verdict' = "None"
    /\ pc' = "select"
    /\ UNCHANGED <<difficulty, layouts, placed_by, edge_log, first, result,
                   level, spawned, fire_step>>

\* faulty variant of Fallback: any failed attempt may end in the fallback level
FallbackEarly ==
    /\ pc = "failed"
    /\ graph' = create_linear_template(Some(level.seed))
    /\ LET st == generate_layout(graph', level.seed)
       IN  /\ layouts' = st.layouts
           /\ placed_by' = st.placed_by
           /\ edge_log' = st.edge_log
           /\ spawned' = Append(spawned, Level(graph', st.layouts))
    /\ pc' = "spawned"
    /\ UNCHANGED <<difficulty, seed, kinds, graphs, chain, pending, first,
                   verdict, result, level, attempt, fire_step>>

\* the last attempt failed: the linear template of the level's seed, laid out
\* and spawned without terrain
Fallback ==
    /\ pc = "failed"
    /\ attempt + 1 >= max_retries
    /\ graph' = create_linear_template(Some(level.seed))
    /\ LET st == generate_layout(graph', level.seed)
       IN  /\ layouts' = st.layouts
           /\ placed_by' = st.placed_by
           /\ edge_log' = st.edge_log
           /\ spawned' = Append(spawned, Level(graph', st.layouts))
    /\ pc' = "spawned"
    /\ UNCHANGED <<difficulty, seed, kinds, graphs, chain, pending, first,
                   verdict, result, level, attempt, fire_step>>

NextSpawn ==
    \/ SelectTemplates
    \/ CreateTemplate
    \/ Merge
    \/ GenerateChain
    \/ ValidateChain
    \/ ApplyEntry
    \/ StageFails
    \/ SpawnGenerated
    \/ Retry
    \/ Fallback

SpecSpawn == InitSpawn /\ [][NextSpawn]_vars

-----------------------------------------------------------------------------
(* The core operations on arbitrary PlatformGraph values: the fields of     *)
(* PlatformGraph are public, so a graph may have no nodes, or a start, a    *)
(* goal or an edge target that names no node.                               *)

\* the ascending sequence of a finite set of numbers
RECURSIVE SortedSeq(_)
SortedSeq(S) ==
    IF S = {} THEN <<>>
    ELSE LET least == CHOOSE x \in S : \A y \in S : x <= y
         IN  <<least>> \o SortedSeq(S \ {least})

\* the graph of n Floating nodes with the edges <<from, to>> of E
InputGraph(n, E, start, goal) ==
    [nodes |-> [i \in 1..n |->
                   LET targets == SortedSeq({e[2] : e \in {d \in E : d[1] = i - 1}})
                   IN  [with_type("Floating") EXCEPT !.edges =
                           [k \in 1..Len(targets) |->
                               [to |-> targets[k], connection_type |-> Jump("Right")]]]],
     start |-> start, goal |-> goal]

\* graphs of up to MaxNodes nodes and MaxEdges edges; with n nodes the ids
\* 0..n-1 are in range and n is not
InputGraphs ==
    UNION {{InputGraph(n, E, start, goal) :
                E \in {D \in SUBSET ((0..(n - 1)) \X (0..n)) :
                           Cardinality(D) <= MaxEdges},
                start \in 0..n, goal \in 0..n} :
           n \in 0..MaxNodes}

\* what a call did: its status and, where it returned, its value
Called(op, arg, status, value) ==
    [op |-> op, arg |-> arg, status |-> status, value |-> value]

InitAnyGraph ==
    /\ pc = "graph"
    /\ graph \in InputGraphs
    /\ difficulty = "Easy"
    /\ seed = 0
    /\ kinds = <<>>
    /\ graphs = <<>>
    /\ chain = NoChain
    /\ pending = {}
    /\ layouts = <<>>
    /\ placed_by = <<>>
    /\ edge_log = <<>>
    /\ fire_step = NoFireStep
    /\ first = <<>>
    /\ verdict = "None"
    /\ result = <<>>
    /\ level = NoLevel
    /\ attempt = 0
    /\ spawned = <<>>

\* connection types for the edges of an input graph
InputConnectionTypes == {Jump("Right"), Fall("LeftDown"), MovingPlatform("RightUp")}

\* the graph g with connection_type on every edge
WithConnections(g, connection_type) ==
    [g EXCEPT !.nodes =
        [i \in 1..Len(g.nodes) |->
            [g.nodes[i] EXCEPT !.edges =
                [k \in 1..Len(g.nodes[i].edges) |->
                    [g.nodes[i].edges[k] EXCEPT
                        !.connection_type = connection_type]]]]]

\* reachable_from(node) on the graph, its edges given one of the connection
\* types
CallReachableFrom ==
    /\ pc = "graph"
    /\ \E node \in 0..MaxNodes, connection_type \in InputConnectionTypes :
         LET g == WithConnections(graph, connection_type)
         IN  result' = Called("reachable_from",
                              [node |-> node, connection_type |-> connection_type],
                              IF ReachPanics(g, node) THEN "Panic" ELSE "Returned",
                              reachable_from(g, node))
    /\ pc' = "called"
    /\ UNCHANGED <<difficulty, seed, kinds, graphs, graph, chain, pending,
                   layouts, placed_by, edge_log, first, verdict, level,
                   attempt, spawned, fire_step>>

\* graph.validate()
CallValidate ==
    /\ pc = "graph"
    /\ result' = Called("validate", 0, graph_validate(graph), <<>>)
    /\ pc' = "called"
    /\ UNCHANGED <<difficulty, seed, kinds, graphs, graph, chain, pending,
                   layouts, placed_by, edge_log, first, verdict, level,
                   attempt, spawned, fire_step>>

\* CausalityGenerator::new(config).generate_chain(&graph)
CallGenerateChain ==
    /\ pc = "graph"
    /\ \E d \in Difficulties, s \in 0..MaxSeed :
         /\ difficulty' = d
         /\ seed' = s
         /\ chain' = generate_chain(d, s, graph)
    /\ result' = Called("generate_chain", 0,
                        IF chain'.panicked THEN "Panic"
                        ELSE IF chain'.ok THEN "Ok" ELSE "Err",
                        <<>>)
    /\ pc' = "called"
    /\ UNCHANGED <<kinds, graphs, graph, pending, layouts, placed_by,
                   edge_log, first, verdict, level, attempt, spawned,
                   fire_step>>

\* graph.generate_layout(seed)
CallGenerateLayout ==
    /\ pc = "graph"
    /\ LET st == generate_layout(graph, seed)
       IN  /\ layouts' = st.layouts
           /\ placed_by' = st.placed_by
           /\ edge_log' = st.edge_log
           /\ result' = Called("generate_layout", 0,
                               IF st.panicked THEN "Panic" ELSE "Returned", <<>>)
    /\ pc' = "called"
    /\ UNCHANGED <<difficulty, seed, kinds, graphs, graph, chain, pending,
                   first, verdict, level, attempt, spawned, fire_step>>

NextAnyGraph ==
    \/ CallReachableFrom
    \/ CallValidate
    \/ CallGenerateChain
    \/ CallGenerateLayout

SpecAnyGraph == InitAnyGraph /\ [][NextAnyGraph]_vars

-----------------------------------------------------------------------------
(* generator.rs add_fire_conversion_step, one step per draw.  Here a draw of  *)
(* self.rng.random_range(0..available_nodes.len()) may give any index, and   *)
(* the draws are fair: a value that is possible every time the loop draws    *)
(* is not avoided for ever.                                                  *)

\* the graphs the step is run on: the templates, and the input graphs that
\* reachable_from can walk
FireStepGraphs ==
    {Template(kind, s) : kind \in TemplateKinds, s \in 0..MaxSeed}
        \cup {g \in InputGraphs : ~ ReachPanics(g, g.start)}

\* the step has been entered and has collected its candidates
InitFire ==
    /\ pc = "fire_enter"
    /\ graph \in FireStepGraphs
    /\ difficulty = "Medium"
    /\ seed = 0
    /\ kinds = <<>>
    /\ graphs = <<>>
    /\ chain = [rng |-> 0, ok |-> TRUE, panicked |-> FALSE,
                chain |-> chain_add_node(NewChain(ContainerFilled(1)),
                                         FillStep(1, graph.goal))]
    /\ pending = {}
    /\ layouts = <<>>
    /\ placed_by = <<>>
    /\ edge_log = <<>>
    /\ fire_step = [NoFireStep EXCEPT !.available = AvailableNodes(graph)]
    /\ first = <<>>
    /\ verdict = "None"
    /\ result = <<>>
    /\ level = NoLevel
    /\ attempt = 0
    /\ spawned = <<>>

\* if available_nodes.len() < 2 { return Err(..) }
FireCheck ==
    /\ pc = "fire_enter"
    /\ pc' = IF Len(fire_step.available) < 2 THEN "fire_done" ELSE "fire_draw"
    /\ chain' = [chain EXCEPT !.ok = Len(fire_step.available) >= 2]
    /\ UNCHANGED <<fire_step, difficulty, seed, kinds, graphs, graph, pending,
                   layouts, placed_by, edge_log, first, verdict, result, level,
                   attempt, spawned>>

\* the first draws of snow_node and fire_node
FireDraw ==
    /\ pc = "fire_draw"
    /\ \E snow_node \in SeqToSet(fire_step.available),
          fire_node \in SeqToSet(fire_step.available) :
           fire_step' = [fire_step EXCEPT !.snow_node = snow_node,
                                          !.fire_node = fire_node]
    /\ pc' = "fire_loop"
    /\ UNCHANGED <<difficulty, seed, kinds, graphs, graph, chain, pending,
                   layouts, placed_by, edge_log, first, verdict, result, level,
                   attempt, spawned>>

\* faulty variant of FireRedraw: the redraw gives the node of the snow again
FireRedrawSame ==
    /\ pc = "fire_loop"
    /\ fire_step.fire_node = fire_step.snow_node
    /\ Len(fire_step.available) > 1
    /\ fire_step' = [fire_step EXCEPT !.fire_node = fire_step.snow_node,
                                      !.redrawn = TRUE]
    /\ UNCHANGED <<pc, difficulty, seed, kinds, graphs, graph, chain, pending,
                   layouts, placed_by, edge_log, first, verdict, result, level,
                   attempt, spawned>>

\* one pass of the loop: while fire_node == snow_node && len > 1, draw again
FireRedraw ==
    /\ pc = "fire_loop"
    /\ fire_step.fire_node = fire_step.snow_node
    /\ Len(fire_step.available) > 1
    /\ \E fire_node \in SeqToSet(fire_step.available) :
           fire_step' = [fire_step EXCEPT !.fire_node = fire_node,
                                          !.redrawn = TRUE]
    /\ UNCHANGED <<pc, difficulty, seed, kinds, graphs, graph, chain, pending,
                   layouts, placed_by, edge_log, first, verdict, result, level,
                   attempt, spawned>>

\* the loop exit: the snow step and the fire step are pushed, Ok(())
FirePush ==
    /\ pc = "fire_loop"
    /\ ~ (/\ fire_step.fire_node = fire_step.snow_node
          /\ Len(fire_step.available) > 1)
    /\ chain' = [chain EXCEPT !.chain =
                     chain_add_node(
                         chain_add_node(@,
                             CausalityNode(SnowBucket, Player, "SnowSource",
                                           fire_step.snow_node)),
                         CausalityNode(WaterBucket,
                                       BucketAt("Snow", fire_step.fire_node),
                                       "Fire", fire_step.fire_node))]
    /\ pc' = "fire_done"
    /\ UNCHANGED <<difficulty, seed, kinds, graphs, graph, pending, layouts,
                   placed_by, edge_log, first, verdict, result, level,
                   attempt, spawned, fire_step>>

NextFire ==
    \/ FireCheck
    \/ FireDraw
    \/ FireRedraw
    \/ FirePush

\* a pass of the loop that draws a node other than the snow's
FireRedrawsAnother ==
    FireRedraw /\ fire_step'.fire_node # fire_step.snow_node

\* the step keeps running, and its draws are fair
SpecFire ==
    /\ InitFire
    /\ [][NextFire]_vars
    /\ WF_vars(NextFire)
    /\ SF_vars(FireRedrawsAnother)

-----------------------------------------------------------------------------
(* Claims *)

\* the locations of the chain's steps in forward (start-to-goal) order
ForwardLocations(c) ==
    [i \in 1..Len(c.nodes) |-> c.nodes[Len(c.nodes) + 1 - i].location]

\* b can be reached from a along directed edges of g
CanReach(g, a, b) == b \in SeqToSet(reachable_from(g, a))

\* C1: the chain generate_chain returned can be walked in forward order through
\* the topology: the first step's location is reachable from graph.start, each
\* further step's location is reachable from the location of the step before
\* it, and the last step (the second fill) is at graph.goal.
C1_ChainWalkable ==
    pc = "validate" =>
        LET at == ForwardLocations(chain.chain)
        IN  /\ CanReach(graph, graph.start, at[1])
            /\ \A i \in 1..(Len(at) - 1) : CanReach(graph, at[i], at[i + 1])
            /\ at[Len(at)] = graph.goal

\* C2: whenever generate_chain returns Ok(chain), chain.validate() returns Ok,
\* the declared goal is ContainerFilled(1), and the pipeline never fails at
\* the validation stage.
C2_GeneratedChainValidates ==
    /\ chain.ok =>
          /\ chain_validate(chain.chain) = "Ok"
          /\ chain.chain.goal = ContainerFilled(1)
    /\ verdict \in {"None", "Ok"}

\* C2 witness: a generated chain with a snow-to-fire conversion has passed
\* validation
C2_Witness ==
    /\ pc = "apply"
    /\ verdict = "Ok"
    /\ \E i \in 1..Len(chain.chain.nodes) :
           chain.chain.nodes[i].cause.kind = "BucketAt"
           /\ chain.chain.nodes[i].cause.content = "Snow"

\* the effects achieved before the node at storage index i has its turn in
\* forward order: those of the nodes stored after it
AchievedBefore(c, i) == {c.nodes[j].effect : j \in (i + 1)..Len(c.nodes)}

\* a cause is satisfied by a set of achieved effects
Satisfied(cause, achieved) ==
    CASE cause.kind = "Player"      -> TRUE
      [] cause.kind = "BucketAt"    -> TRUE
      [] cause.kind = "RequiresAny" ->
             SeqToSet(cause.effects) \cap achieved # {}
      [] cause.kind = "RequiresAll" ->
             SeqToSet(cause.effects) \subseteq achieved

\* every node's cause is satisfied at its turn and the goal is achieved at the end
ForwardSatisfied(c) ==
    /\ \A i \in 1..Len(c.nodes) : Satisfied(c.nodes[i].cause, AchievedBefore(c, i))
    /\ c.goal \in AchievedBefore(c, 0)

\* C3: validate() returns Ok if and only if, in forward order and starting from
\* an empty achieved set, every node's cause is satisfied at its turn (its own
\* effect counted only afterwards) and the declared goal is achieved at the end.
C3_ValidateIffForwardSatisfied ==
    pc = "validated" => (verdict = "Ok" <=> ForwardSatisfied(chain.chain))

\* C3 witness: validate accepted a two-node chain whose first-stored node has a
\* non-empty RequiresAll cause, met by the Player node stored after it (the
\* forward order visits the later-stored node first)
C3_Witness ==
    /\ pc = "validated"
    /\ verdict = "Ok"
    /\ Len(chain.chain.nodes) = 2
    /\ chain.chain.nodes[1].cause.kind = "RequiresAll"
    /\ chain.chain.nodes[1].cause.effects # <<>>
    /\ chain.chain.nodes[2].cause.kind = "Player"

\* C4: reachable_from(start) contains goal for every template built and for
\* every merge of templates.
C4_GoalReachable ==
    /\ \A i \in 1..Len(graphs) : GraphValidateOk(graphs[i])
    /\ pc = "chain" => GraphValidateOk(graph)

\* C4 witness: three templates, among them the branching and the cul-de-sac
\* one, have been merged
C4_Witness ==
    /\ pc = "chain"
    /\ Len(kinds) = 3
    /\ {"Branching", "CulDeSac"} \subseteq SeqToSet(kinds)

\* C5: create_linear_template(Some(seed)) has between 5 and 8 nodes (exactly 5
\* without a seed), its start is node 0, its goal is the last node, and its
\* validate() succeeds.
C5_LinearTemplate ==
    \A i \in 1..Len(graphs) :
        kinds[i] \in {"Linear", "LinearNone"} =>
            /\ Len(graphs[i].nodes) \in 5..8
            /\ kinds[i] = "LinearNone" => Len(graphs[i].nodes) = 5
            /\ graphs[i].start = 0
            /\ graphs[i].goal = Len(graphs[i].nodes) - 1
            /\ GraphValidateOk(graphs[i])

\* C5 witness: a seeded linear template with 8 nodes and an upward connection
C5_Witness ==
    \E i \in 1..Len(graphs) :
        /\ kinds[i] = "Linear"
        /\ Len(graphs[i].nodes) = 8
        /\ \E n \in 1..8 : \E e \in SeqToSet(graphs[i].nodes[n].edges) :
               e.connection_type.direction = "RightUp"

\* the sum of the node counts of the first n graphs of gs
RECURSIVE NodeCountSum(_, _)
NodeCountSum(gs, n) ==
    IF n = 0 THEN 0 ELSE NodeCountSum(gs, n - 1) + Len(gs[n].nodes)

\* the step in which merge_graphs(graphs) produces graph'
IsMergeStep == pc = "template" /\ pc' = "chain"

\* C6: merge_graphs yields a graph whose node count is the sum of the input
\* node counts, and whose goal is the sum of the node counts of all graphs
\* before the last plus the last graph's local goal.
C6_MergeCounts ==
    [][IsMergeStep =>
          /\ Len(graph'.nodes) = NodeCountSum(graphs, Len(graphs))
          /\ graph'.goal = NodeCountSum(graphs, Len(graphs) - 1)
                              + graphs[Len(graphs)].goal]_vars

\* C6 witness: three templates of different sizes have been merged
C6_Witness ==
    /\ pc = "chain"
    /\ kinds = <<"CulDeSac", "Branching", "Zigzag">>
    /\ Len(graph.nodes) = 21

\* C7: after merge_graphs of two or more graphs the start is the first graph's
\* start, and for every adjacent pair the earlier graph's goal node and the
\* later graph's remapped start node are Floating; two 5-node linear templates
\* give 10 nodes, start 0, goal 9 and nodes 4 and 5 Floating.
C7_MergeConnection ==
    [][(IsMergeStep /\ Len(graphs) >= 2) =>
          /\ graph'.start = graphs[1].start
          /\ \A p \in 1..(Len(graphs) - 1) :
                /\ get_node(graph', NodeCountSum(graphs, p - 1) + graphs[p].goal)
                       .platform_type = "Floating"
                /\ get_node(graph', NodeCountSum(graphs, p) + graphs[p + 1].start)
                       .platform_type = "Floating"
          /\ kinds = <<"LinearNone", "LinearNone">> =>
                /\ Len(graph'.nodes) = 10
                /\ graph'.start = 0
                /\ graph'.goal = 9
                /\ get_node(graph', 4).platform_type = "Floating"
                /\ get_node(graph', 5).platform_type = "Floating"]_vars

\* C7 witness: two 5-node linear templates have been merged
C7_Witness ==
    /\ pc = "chain"
    /\ kinds = <<"LinearNone", "LinearNone">>
    /\ Len(graph.nodes) = 10

\* C8: every PlatformLayout of the map generate_layout returns has grid_y >= 0.
C8_NoNegativeRow ==
    \A n \in DOMAIN layouts : layouts[n].grid_y >= 0

\* C8 witness: a node was placed on row 0 through a down-biased or neutral edge
\* from a source on row 0 or 1
C8_Witness ==
    /\ pc = "done"
    /\ \E n \in DOMAIN placed_by :
           /\ layouts[n].grid_y = 0
           /\ layouts[placed_by[n]].grid_y <= 1
           /\ layouts[n].grid_x - layouts[placed_by[n]].grid_x
                  <= MAX_JUMP_DISTANCE_TILES

\* C9: every node placed through an edge stays within the jump limits relative
\* to the node that placed it: the horizontal delta of the grid origins is at
\* most MAX_JUMP_DISTANCE_TILES and the rise at most MAX_JUMP_HEIGHT_TILES.
C9_WithinJumpLimits ==
    \A n \in DOMAIN placed_by :
        /\ Abs(layouts[n].grid_x - layouts[placed_by[n]].grid_x)
               <= MAX_JUMP_DISTANCE_TILES
        /\ layouts[n].grid_y - layouts[placed_by[n]].grid_y
               <= MAX_JUMP_HEIGHT_TILES

\* C10: two runs of the pipeline with the same difficulty, seed and template
\* constructors produce the same graph and the same NodeId-to-layout map,
\* whatever the order in which apply_chain_to_graph visits terrain_map.
C10_SameOutcome ==
    (pc = "done" /\ first # <<>>) => first[1] = Outcome

\* C10 witness: a second run is over whose chain placed terrain on at least
\* three nodes, so that terrain_map could be visited in several orders
C10_Witness ==
    /\ pc = "done"
    /\ first # <<>>
    /\ Cardinality(TerrainLocations(chain.chain)) >= 3

\* the number of GoalContainer objects a node holds
GoalContainers(node) ==
    Cardinality({k \in 1..Len(node.terrain_objects) :
                    node.terrain_objects[k] = "GoalContainer"})

\* C11: after apply_chain_to_graph of a generated chain onto a graph that held
\* no terrain, the goal node holds exactly one GoalContainer and no other node
\* holds one.
C11_OneGoalContainer ==
    pc \in {"layout", "done"} =>
        \A id \in 0..(Len(graph.nodes) - 1) :
            GoalContainers(get_node(graph, id)) = IF id = graph.goal THEN 1 ELSE 0

\* C11 witness: the chain's two fill steps were applied to the goal node, which
\* holds the container once
C11_Witness ==
    /\ pc = "layout"
    /\ TerrainAt(chain.chain, graph.goal) = <<"GoalContainer", "GoalContainer">>
    /\ get_node(graph, graph.goal).terrain_objects = <<"GoalContainer">>

\* C12: after apply_chain_to_graph every node holding a WaterSource has a
\* footprint of at least 9 tiles by 2 tiles, and generate_layout gives it
\* width_tiles >= 9 and height_tiles >= 2.
C12_WaterPlatformSize ==
    \A id \in 0..(Len(graph.nodes) - 1) :
        HoldsWaterSource(get_node(graph, id)) =>
            /\ pc \in {"layout", "done"} =>
                  /\ get_node(graph, id).width >= 9 * TILE_SIZE
                  /\ get_node(graph, id).height >= 2
            /\ pc = "done" =>
                  /\ id \in DOMAIN layouts
                  /\ layouts[id].width_tiles >= 9
                  /\ layouts[id].height_tiles >= 2

\* C12 witness: a Floating platform holding a WaterSource has been laid out
C12_Witness ==
    /\ pc = "done"
    /\ \E id \in DOMAIN layouts :
           /\ get_node(graph, id).platform_type = "Floating"
           /\ HoldsWaterSource(get_node(graph, id))
           /\ layouts[id].width_tiles = 9

\* C13: no core operation aborts on a data-dependent condition: on every
\* PlatformGraph value, including one without nodes or with a start, goal or
\* edge target out of range, reachable_from, validate, generate_chain and
\* generate_layout return a result or a failure value.
C13_NoAbort ==
    pc = "called" => result.status # "Panic"

\* start, goal and every edge target of g name a node of g
InRange(g) ==
    /\ HasNode(g, g.start)
    /\ HasNode(g, g.goal)
    /\ \A i \in 1..Len(g.nodes) : \A k \in 1..Len(g.nodes[i].edges) :
           HasNode(g, g.nodes[i].edges[k].to)

\* the least set of nodes that contains S and is closed under the edges of g
RECURSIVE EdgeClosure(_, _)
EdgeClosure(g, S) ==
    LET T == S \cup {e.to : e \in UNION {SeqToSet(get_node(g, n).edges) :
                                            n \in {m \in S : HasNode(g, m)}}}
    IN  IF T = S THEN S ELSE EdgeClosure(g, T)

\* there is a directed path of edges from a to b (the empty path for a = b)
HasPath(g, a, b) == b \in EdgeClosure(g, {a})

Sites(g) == EdgeClosure(g, {g.start}) \ {g.goal}

\* the first draw of a generator seeded with s selects the fire mechanic
FireDrawnFirst(s) == random_bool(seed_from_u64(s), 3)

\* the first water step is a direct pickup (two draws: the mechanic and the
\* node) and the draw of the second water step selects the fire mechanic
FireDrawnSecond(s) ==
    /\ ~ FireDrawnFirst(s)
    /\ random_bool(RngStep(RngStep(seed_from_u64(s))), 3)

C15_EasyNoFire ==
    (difficulty = "Easy" /\ chain.ok) =>
        LET nodes == chain.chain.nodes
        IN  /\ \A i \in 1..Len(nodes) :
                   /\ nodes[i].effect # SnowBucket
                   /\ nodes[i].terrain \notin {"SnowSource", "Fire"}
                   /\ nodes[i].effect = WaterBucket =>
                          /\ nodes[i].cause = Player
                          /\ nodes[i].terrain = "WaterSource"
            /\ Cardinality({i \in 1..Len(nodes) : nodes[i].effect = WaterBucket}) = 2

\* C15 witness: an Easy chain was generated from a seed whose first draw
\* selects the fire mechanic
C15_Witness ==
    /\ difficulty = "Easy"
    /\ chain.ok
    /\ FireDrawnFirst(seed)
    /\ Len(chain.chain.nodes) = 4

\* C16: in every generated chain the location of every water-source,
\* snow-source and fire step is a node reachable from graph.start and
\* different from graph.goal, and the location of every fill step is graph.goal.
C16_StepLocations ==
    (chain.ok /\ pc \in {"validate", "called"}) =>
        \A i \in 1..Len(chain.chain.nodes) :
            LET node == chain.chain.nodes[i]
            IN  IF node.effect.tag = "ContainerFilled"
                THEN node.location = graph.goal
                ELSE /\ HasPath(graph, graph.start, node.location)
                     /\ node.location # graph.goal

\* C16 witness: a generated chain with a snow source and a fire on a graph
\* merged from two templates
C16_Witness ==
    /\ pc = "validate"
    /\ chain.ok
    /\ Len(kinds) = 2
    /\ \E i \in 1..Len(chain.chain.nodes) : chain.chain.nodes[i].terrain = "Fire"
    /\ \E i \in 1..Len(chain.chain.nodes) :
           chain.chain.nodes[i].terrain = "SnowSource"

\* g has an edge from a to b
HasEdge(g, a, b) ==
    \E k \in 1..Len(get_node(g, a).edges) : get_node(g, a).edges[k].to = b

\* C18: the branching template has 7 nodes and every edge of it is
\* bidirectional: for every edge a->b there is also an edge b->a.
C18_BranchingBidirectional ==
    \A i \in 1..Len(graphs) :
        kinds[i] = "Branching" =>
            /\ Len(graphs[i].nodes) = 7
            /\ \A a, b \in 0..6 :
                   HasEdge(graphs[i], a, b) => HasEdge(graphs[i], b, a)

\* C19: generate_layout assigns grid coordinates to every node: for every
\* template and every merge of templates the returned map has one
\* PlatformLayout per node of the graph (exactly the nodes reachable from
\* start), with the start node pinned at grid origin (2, 0).
C19_LayoutCoversGraph ==
    pc = "done" =>
        /\ DOMAIN layouts = 0..(Len(graph.nodes) - 1)
        /\ DOMAIN layouts = EdgeClosure(graph, {graph.start})
        /\ layouts[graph.start].grid_x = 2
        /\ layouts[graph.start].grid_y = 0

\* C19 witness: a merge that contains the branching and the cul-de-sac
\* template, whose nodes have several outgoing edges, has been laid out
C19_Witness ==
    /\ pc = "done"
    /\ {"Branching", "CulDeSac"} \subseteq SeqToSet(kinds)
    /\ Cardinality(DOMAIN layouts) >= 13

\* no node of g holds a terrain object
NoTerrain(g) == \A i \in 1..Len(g.nodes) : g.nodes[i].terrain_objects = <<>>

\* C20: spawn_level makes at most 10 generation attempts, attempt i using
\* seed + i*10000 and a graph built fresh for it; it stops at the first
\* attempt whose chain generation, chain validation and terrain application
\* all succeed, and spawns exactly one level: that attempt's level or, only
\* when all 10 attempts failed, the fallback linear template without terrain.
C20_RetryLoop ==
    [][/\ pc # "spawned"
       /\ attempt \in 0..9 /\ attempt' \in 0..9
       /\ seed = level.seed + attempt * 10000
       /\ pc' # "spawned" => seed' = level.seed + attempt' * 10000
       /\ pc' = "select" =>
              graph' = NoGraph /\ graphs' = <<>> /\ chain' = NoChain
       /\ Len(spawned') = IF pc' = "spawned" THEN 1 ELSE 0
       /\ pc' = "spawned" => pc \in {"layout", "failed"}
       /\ pc = "layout" =>
              /\ chain.ok /\ verdict = "Ok" /\ pending = {}
              /\ pc' = "spawned"
              /\ attempt' = attempt
              /\ spawned'[1] = Level(graph, generate_layout(graph, seed).layouts)
       /\ pc = "failed" =>
              IF attempt < 9
              THEN pc' = "select" /\ attempt' = attempt + 1
              ELSE /\ pc' = "spawned"
                   /\ spawned'[1].graph = create_linear_template(Some(level.seed))
                   /\ NoTerrain(spawned'[1].graph)
                   /\ spawned'[1].layouts =
                          generate_layout(spawned'[1].graph, level.seed).layouts
      ]_vars

\* C20 witness: nine attempts failed and the tenth, with seed + 90000,
\* succeeded; its level, with the goal container placed, is the one spawned
C20_Witness ==
    /\ pc = "spawned"
    /\ attempt = 9
    /\ seed = level.seed + 90000
    /\ Len(spawned) = 1
    /\ spawned[1].graph = graph
    /\ GoalContainers(get_node(graph, graph.goal)) = 1

\* the bucket content an effect leaves behind
BucketAfter(effect, bucket) ==
    IF effect = SnowBucket THEN "Snow"
    ELSE IF effect = WaterBucket THEN "Water"
    ELSE IF effect.tag = "ContainerFilled" THEN "Empty"
    ELSE bucket

\* the steps of c from storage index i down to 1 (forward order), taken with
\* the bucket holding bucket before step i: every BucketAt step finds its
\* content in the bucket
RECURSIVE BucketConsistent(_, _, _)
BucketConsistent(c, i, bucket) ==
    IF i = 0 THEN TRUE
    ELSE /\ c.nodes[i].cause.kind = "BucketAt" =>
                c.nodes[i].cause.content = bucket
         /\ BucketConsistent(c, i - 1, BucketAfter(c.nodes[i].effect, bucket))

\* C21: every generated chain is consistent with the bucket state when its
\* steps are taken in forward order, the bucket Empty at the start: every
\* BucketAt step is reached with the bucket holding its content, so each fire
\* melt (BucketAt Snow) comes after its snow pickup.
C21_BucketConsistent ==
    (pc = "validate" /\ chain.ok) =>
        BucketConsistent(chain.chain, Len(chain.chain.nodes), "Empty")

\* the steps of c in forward order
ForwardNodes(c) == [i \in 1..Len(c.nodes) |-> c.nodes[Len(c.nodes) + 1 - i]]

\* step is the fill with index i, at goal_node
IsFill(step, i, goal_node) ==
    /\ step.effect = ContainerFilled(i)
    /\ step.location = goal_node

\* steps is a water-fetch group: one direct pickup of water, or a snow pickup
\* together with a melt
IsWaterGroup(steps) ==
    \/ /\ Len(steps) = 1
       /\ steps[1].effect = WaterBucket
       /\ steps[1].cause = Player
    \/ /\ Len(steps) = 2
       /\ {steps[1].effect, steps[2].effect} = {SnowBucket, WaterBucket}
       /\ \A k \in 1..2 :
              IF steps[k].effect = SnowBucket
              THEN steps[k].cause = Player
              ELSE steps[k].cause.kind = "BucketAt"

\* C22: in forward order every generated chain is a water-fetch group (1 or 2
\* steps), then ContainerFilled(0) at the goal, then a water-fetch group (1 or
\* 2 steps), then ContainerFilled(1) at the goal as its last step; its
\* declared goal is ContainerFilled(1) and it has 4 to 6 steps.
C22_ChainShape ==
    (pc = "validate" /\ chain.ok) =>
        LET steps == ForwardNodes(chain.chain)
            n     == Len(steps)
        IN  /\ n \in 4..6
            /\ chain.chain.goal = ContainerFilled(1)
            /\ IsFill(steps[n], 1, graph.goal)
            /\ \E k \in 2..3 :
                   /\ IsFill(steps[k], 0, graph.goal)
                   /\ IsWaterGroup(SubSeq(steps, 1, k - 1))
                   /\ IsWaterGroup(SubSeq(steps, k + 1, n - 1))

\* C22 witness: a generated chain of six steps, both water-fetch groups being
\* a snow pickup with a melt
C22_Witness ==
    /\ pc = "validate"
    /\ chain.ok
    /\ Len(chain.chain.nodes) = 6

\* C23: the number of steps of every generated chain lies within
\* chain_length_range() of its difficulty: 2..4 on Easy, 4..7 on Medium and
\* 7..12 on Hard.
C23_LengthInRange ==
    (pc = "validate" /\ chain.ok) =>
        /\ Len(chain.chain.nodes) >= chain_length_range(difficulty)[1]
        /\ Len(chain.chain.nodes) <= chain_length_range(difficulty)[2]

\* the step has returned Ok with the snow source and the fire pushed, in this
\* order, as the last two steps of the chain, on two different nodes
FireStepPlaced ==
    /\ pc = "fire_done"
    /\ chain.ok
    /\ LET nodes == chain.chain.nodes
           n     == Len(nodes)
       IN  /\ n >= 2
           /\ nodes[n - 1].terrain = "SnowSource"
           /\ nodes[n].terrain = "Fire"
           /\ nodes[n - 1].location \in SeqToSet(AvailableNodes(graph))
           /\ nodes[n].location \in SeqToSet(AvailableNodes(graph))
           /\ nodes[n - 1].location # nodes[n].location

\* C24: with at least 2 candidate nodes, add_fire_conversion_step terminates
\* under fair random draws, and places the snow source and the fire on two
\* different nodes.
C24_FireStepTerminates ==
    (pc = "fire_enter" /\ Len(AvailableNodes(graph)) >= 2) ~> FireStepPlaced

\* C24 witness: the first draws gave the same node, the loop drew again, and
\* the step has returned with snow and fire on different nodes
C24_Witness ==
    /\ FireStepPlaced
    /\ fire_step.redrawn

\* the edges of node i of graph p of gs, each target moved by the node count
\* of the graphs before p, the connection type as it was
RemappedEdges(gs, p, i) ==
    LET edges == get_node(gs[p], i).edges
    IN  [k \in 1..Len(edges) |->
            [to              |-> edges[k].to + NodeCountSum(gs, p - 1),
             connection_type |-> edges[k].connection_type]]

\* the connecting edges of node i of graph p of gs: from the remapped start of
\* a later graph back to the goal of the graph before it, and from the goal of
\* an earlier graph to the remapped start of the graph after it
ConnectingEdges(gs, p, i) ==
    (IF p > 1 /\ i = gs[p].start
     THEN <<[to |-> NodeCountSum(gs, p - 2) + gs[p - 1].goal,
             connection_type |-> Jump("Left")]>>
     ELSE <<>>)
    \o
    (IF p < Len(gs) /\ i = gs[p].goal
     THEN <<[to |-> NodeCountSum(gs, p) + gs[p + 1].start,
             connection_type |-> Jump("Right")]>>
     ELSE <<>>)

\* C25: merge_graphs keeps every edge of its inputs and adds only the
\* connecting ones: an edge i->j of graph p becomes (i+off)->(j+off), off the
\* node count of the graphs before p, with its connection type unchanged (the
\* first graph's edges are unchanged), and for every adjacent pair exactly
\* two edges are added, a Jump from the earlier goal to the remapped start of
\* the later graph and a Jump back.
C25_MergeKeepsEdges ==
    [][IsMergeStep =>
          /\ Len(graph'.nodes) = NodeCountSum(graphs, Len(graphs))
          /\ \A p \in 1..Len(graphs) : \A i \in 0..(Len(graphs[p].nodes) - 1) :
                 get_node(graph', NodeCountSum(graphs, p - 1) + i).edges
                     = RemappedEdges(graphs, p, i) \o ConnectingEdges(graphs, p, i)
      ]_vars

\* C25 witness: three templates were merged, the middle one the branching
\* template, whose remapped start has its two forward edges and the Jump back
C25_Witness ==
    /\ pc = "chain"
    /\ Len(kinds) = 3
    /\ kinds[2] = "Branching"
    /\ \E n \in 1..Len(graph.nodes) :
           /\ Len(graph.nodes[n].edges) = 3
           /\ graph.nodes[n].edges[3].connection_type = Jump("Left")
           /\ graph.nodes[n].edges[3].to < n - 1
           /\ graph.nodes[n].edges[1].connection_type.direction = "RightUp"

\* the edge visits of generate_layout that placed node n
PlacingVisits(n) == {k \in 1..Len(edge_log) : n \in edge_log[k].added}

\* C26: in generate_layout a node's layout is assigned exactly once, by the
\* first edge that reaches it in BFS order; a later edge into a node that is
\* already placed leaves the whole layout map unchanged and consumes no
\* random draw.
C26_PlacedOnce ==
    pc = "done" =>
        /\ \A k \in 1..Len(edge_log) :
               /\ edge_log[k].kept
               /\ IF edge_log[k].was_placed
                  THEN /\ edge_log[k].added = {}
                       /\ edge_log[k].rng_after = edge_log[k].rng_before
                  ELSE /\ edge_log[k].added = {edge_log[k].to}
                       /\ \A j \in 1..(k - 1) : edge_log[j].to # edge_log[k].to
        /\ PlacingVisits(graph.start) = {}
        /\ \A n \in DOMAIN layouts \ {graph.start} :
               Cardinality(PlacingVisits(n)) = 1

\* C26 witness: the layout is complete and an edge led into a node that an
\* earlier edge had placed
C26_Witness ==
    /\ pc = "done"
    /\ \E k \in 1..Len(edge_log) : \E j \in 1..(k - 1) :
           /\ edge_log[k].was_placed
           /\ edge_log[j].to = edge_log[k].to
           /\ edge_log[j].added = {edge_log[k].to}
           /\ edge_log[j].from # edge_log[k].from

\* C27: a node placed through an edge with an up-biased hint (RightUp, LeftUp)
\* never gets a lower row than its source, and a node placed through an edge
\* with a down-biased hint (RightDown, LeftDown) never gets a higher row than
\* its source.
C27_BiasRespected ==
    pc = "done" =>
        \A k \in 1..Len(edge_log) :
            edge_log[k].added = {edge_log[k].to} =>
                LET row    == layouts[edge_log[k].to].grid_y
                    source == layouts[edge_log[k].from].grid_y
                IN  /\ edge_log[k].direction \in {"RightUp", "LeftUp"} =>
                           row >= source
                    /\ edge_log[k].direction \in {"RightDown", "LeftDown"} =>
                           row <= source

\* C28: for an in-range node n of a graph whose edge targets are in range,
\* reachable_from(n) returns exactly the nodes reachable from n along directed
\* paths of edges, each once and n among them, whatever the connection type
\* (Jump, Fall, MovingPlatform) and direction hint of the edges.
C28_ReachableExact ==
    (/\ pc = "called"
     /\ result.op = "reachable_from"
     /\ HasNode(graph, result.arg.node)
     /\ \A i \in 1..Len(graph.nodes) : \A k \in 1..Len(graph.nodes[i].edges) :
            HasNode(graph, graph.nodes[i].edges[k].to)) =>
        /\ result.status = "Returned"
        /\ SeqToSet(result.value) = EdgeClosure(graph, {result.arg.node})
        /\ Cardinality(SeqToSet(result.value)) = Len(result.value)
        /\ result.arg.node \in SeqToSet(result.value)

\* C28 witness: reachable_from returned two nodes for a graph with a cycle
\* through the node asked for, the edges being one-way falls
C28_Witness ==
    /\ pc = "called"
    /\ result.op = "reachable_from"
    /\ result.arg.connection_type.kind = "Fall"
    /\ result.status = "Returned"
    /\ Len(result.value) = 2
    /\ \E m \in SeqToSet(result.value) :
           /\ m # result.arg.node
           /\ HasEdge(graph, m, result.arg.node)

\* the footprints of a and b, [grid_x, grid_x + width_tiles) by
\* [grid_y, grid_y + height_tiles), have a grid cell in common
Overlap(a, b) ==
    /\ a.grid_x < b.grid_x + b.width_tiles
    /\ b.grid_x < a.grid_x + a.width_tiles
    /\ a.grid_y < b.grid_y + b.height_tiles
    /\ b.grid_y < a.grid_y + a.height_tiles

\* C29: for every template, merge of templates and seed, generate_layout never
\* gives two different nodes footprints that overlap.
C29_NoOverlap ==
    pc = "done" =>
        \A n \in DOMAIN layouts : \A m \in DOMAIN layouts :
            n # m => ~ Overlap(layouts[n], layouts[m])

\* C30: for every template and merge of templates, every difficulty and
\* every seed, generate_chain and apply_chain_to_graph return Ok, so that the
\* first attempt of spawn_level's retry loop succeeds and the fallback level
\* is never used.
C30_FirstAttemptSucceeds ==
    /\ pc \notin {"failed", "aborted"}
    /\ pc \in {"validate", "apply", "layout", "done"} => chain.ok
    /\ pc \in {"apply", "layout", "done"} => verdict = "Ok"
    /\ pc \in {"layout", "done"} => pending = {}

\* C30 witness: on Hard, with three merged templates and a fire conversion in
\* the chain, the chain was generated and applied and the level laid out
C30_Witness ==
    /\ pc = "done"
    /\ difficulty = "Hard"
    /\ Len(kinds) = 3
    /\ chain.ok
    /\ Len(chain.chain.nodes) = 6
    /\ \E i \in 1..Len(graph.nodes) :
           \E k \in 1..Len(graph.nodes[i].terrain_objects) :
               graph.nodes[i].terrain_objects[k] = "Fire"

=============================================================================
